---- MODULE Spec2Model ----
(***************************************************************************)
(* egui-async: the Bind state machine (src/src/bind.rs), the frame clock   *)
(* written by ContextExt::loop_handle (src/src/egui.rs) and the background *)
(* tasks that deliver results through tokio oneshot channels.              *)
(*                                                                         *)
(* f64 frame times are modelled as integers; Option<X> is modelled as a    *)
(* sequence of length 0 (None) or 1 (Some).                                *)
(***************************************************************************)
EXTENDS Integers, Sequences, FiniteSets, TLC

\* ------------------------------------------------------------------ bounds
MaxTime == 2     \* frame times range over 0..MaxTime
MaxTasks == 2    \* at most this many futures are spawned
MaxSecs == 1     \* intervals passed to request_every_sec range over 0..MaxSecs

\* ------------------------------------------------------------------ values
\* f64::MIN, the initial last_complete_time: far below every frame time.
F64_MIN == -1000

None == << >>
Some(x) == << x >>

\* Result<T, E>: the results a future or a caller of fill can produce, Ok(1) and Err(1).
Results == [ok : BOOLEAN, v : {1}]

\* The messages of the panics the code can raise.
NoPanic == "none"
PanicClosed == "Async task's sender was dropped without sending a result."
PanicNoRecv == "BUG: State is Pending but receiver is missing."
PanicFill == "Cannot fill a Bind that is not Idle."
PanicTake == "State was Finished but data was None. This indicates a bug."

\* What the `panic` field holds once the owner of the Bind has dropped it: as after a
\* panic, no operation on the Bind follows.
Dropped == "dropped"

VARIABLES
    CURR_FRAME,   \* static CURR_FRAME
    LAST_FRAME,   \* static LAST_FRAME
    CTX,          \* static CTX: the OnceLock that holds the egui::Context once set
    bind,         \* the Bind<T, E> object: a record of its fields, plus `panic`
    tasks,        \* the futures spawned so far, in spawn order; task i owns the
                  \* sender of channel i, whose receiver is Some(i) in bind.recv
    op,           \* history: the operation performed by the last step
    arg,          \* history: the argument it was given (fill's data, request_every_sec's
                  \* secs, loop_handle's frame time), if any
    ret,          \* history: what it returned, if it was a Bind operation: a record
                  \* with one field per kind of return value; for the send of a
                  \* task, whether the task asked for a repaint (woke)
    sinceQuery,   \* history: loop_handle calls since the last Bind operation:
                  \* 0 same tick, 1 previous tick, 2 earlier or never
    lastGap,      \* history: sinceQuery as the last step found it, if it was a Bind
                  \* operation
    pre_state,    \* history: bind.state before the last step, if it was a Bind operation
    abandoned,    \* history: the tasks whose operation was in flight when clear or
                  \* refresh ran or when the retention step of poll reset the Bind,
                  \* for as long as the task or its channel exists
    tick_events   \* history: what has happened to the Bind since the last loop_handle
                  \* call: "started" (a future was spawned), "completed" (a result was
                  \* received from the channel, or stored by fill)

vars == << CURR_FRAME, LAST_FRAME, CTX, bind, tasks, op, arg, ret, sinceQuery, lastGap,
           pre_state, abandoned, tick_events >>

\* ------------------------------------------------------------------ Bind
\* Mutant of new: last_complete_time starts at 0.0, like last_start_time.
new_completed_at_zero(retain) ==
    [ drawn_time_last |-> 0,
      drawn_time_prev |-> 0,
      data |-> None,
      recv |-> None,
      state |-> "Idle",
      last_start_time |-> 0,
      last_complete_time |-> 0,
      retain |-> retain,
      times_executed |-> 0,
      panic |-> NoPanic ]

\* Bind::new(retain)
new(retain) ==
    [ drawn_time_last |-> 0,
      drawn_time_prev |-> 0,
      data |-> None,
      recv |-> None,
      state |-> "Idle",
      last_start_time |-> 0,
      last_complete_time |-> F64_MIN,
      retain |-> retain,
      times_executed |-> 0,
      panic |-> NoPanic ]

\* oneshot::Receiver::try_recv on the channel of task id. The channel an operation
\* has just created (its task is not yet in `tasks`) is empty.
try_recv(id) ==
    CASE id > Len(tasks) -> "Empty"
      [] tasks[id].st = "sent" -> "Ok"
      [] tasks[id].st = "panicked" -> "Closed"
      [] OTHER -> "Empty"

\* Bind::was_drawn_this_frame
was_drawn_this_frame(self) == self.drawn_time_last = CURR_FRAME

\* Mutant of was_drawn_last_frame: a poll in any earlier frame counts.
was_drawn_in_an_earlier_frame(self) == self.drawn_time_prev <= LAST_FRAME

\* Bind::was_drawn_last_frame
was_drawn_last_frame(self) == self.drawn_time_prev = LAST_FRAME

\* Mutant of poll_short_circuit: poll without its early return.
poll_never_short_circuits(self) == FALSE

\* Mutant of poll_short_circuit: a Bind polled in the previous frame is not polled
\* again either.
poll_short_circuit_last_frame(self) == self.drawn_time_last \in {CURR_FRAME, LAST_FRAME}

\* The early return of poll: the Bind was already polled at this frame time.
poll_short_circuit(self) == CURR_FRAME = self.drawn_time_last

\* Mutant of poll_gc: the retention step asks the wrong helper (was_drawn_this_frame).
poll_gc_this_frame(self) ==
    IF ~self.retain /\ ~was_drawn_this_frame(self)
    THEN [self EXCEPT !.state = "Idle", !.data = None]
    ELSE self

\* Mutant of poll_gc: the retention step ignores the retain flag.
poll_gc_ignores_retain(self) ==
    IF ~was_drawn_last_frame(self)
    THEN [self EXCEPT !.state = "Idle", !.data = None]
    ELSE self

\* Mutant of poll_gc: the retention step also forgets when the Bind last completed.
poll_gc_forgets_completion(self) ==
    IF ~self.retain /\ ~was_drawn_last_frame(self)
    THEN [self EXCEPT !.state = "Idle", !.data = None, !.last_complete_time = F64_MIN]
    ELSE self

\* Mutant of poll_gc: the retention step resets the state but keeps the data.
poll_gc_keeps_data(self) ==
    IF ~self.retain /\ ~was_drawn_last_frame(self)
    THEN [self EXCEPT !.state = "Idle"]
    ELSE self

\* Mutant of poll_recv: an empty channel makes the Bind give up its receiver.
poll_recv_drops_on_empty(self) ==
    IF self.state # "Pending" THEN self
    ELSE IF self.recv = None THEN [self EXCEPT !.panic = PanicNoRecv]
    ELSE LET id == self.recv[1] IN
         CASE try_recv(id) = "Ok" ->
                [self EXCEPT !.data = Some([res |-> tasks[id].res[1], from |-> id]),
                             !.last_complete_time = CURR_FRAME,
                             !.state = "Finished",
                             !.recv = None]
           [] try_recv(id) = "Empty" -> [self EXCEPT !.recv = None]
           [] OTHER -> [self EXCEPT !.panic = PanicClosed]

\* The retention step of poll.
poll_gc(self) ==
    IF ~self.retain /\ ~was_drawn_last_frame(self)
    THEN [self EXCEPT !.state = "Idle", !.data = None]
    ELSE self

\* Mutant of poll_recv: a closed channel is treated like an empty one.
poll_recv_closed_as_empty(self) ==
    IF self.state # "Pending" THEN self
    ELSE IF self.recv = None THEN [self EXCEPT !.panic = PanicNoRecv]
    ELSE LET id == self.recv[1] IN
         CASE try_recv(id) = "Ok" ->
                [self EXCEPT !.data = Some([res |-> tasks[id].res[1], from |-> id]),
                             !.last_complete_time = CURR_FRAME,
                             !.state = "Finished",
                             !.recv = None]
           [] OTHER -> self

\* Mutant of poll_recv: a received Err is treated as a fault instead of being stored.
poll_recv_err_is_fatal(self) ==
    IF self.state # "Pending" THEN self
    ELSE IF self.recv = None THEN [self EXCEPT !.panic = PanicNoRecv]
    ELSE LET id == self.recv[1] IN
         CASE try_recv(id) = "Ok" /\ tasks[id].res[1].ok ->
                [self EXCEPT !.data = Some([res |-> tasks[id].res[1], from |-> id]),
                             !.last_complete_time = CURR_FRAME,
                             !.state = "Finished",
                             !.recv = None]
           [] try_recv(id) = "Empty" -> self
           [] OTHER -> [self EXCEPT !.panic = PanicClosed]

\* Mutant of poll_recv: the receiver is kept after the value was received.
poll_recv_keeps_receiver(self) ==
    IF self.state # "Pending" THEN self
    ELSE IF self.recv = None THEN [self EXCEPT !.panic = PanicNoRecv]
    ELSE LET id == self.recv[1] IN
         CASE try_recv(id) = "Ok" ->
                [self EXCEPT !.data = Some([res |-> tasks[id].res[1], from |-> id]),
                             !.last_complete_time = CURR_FRAME,
                             !.state = "Finished"]
           [] try_recv(id) = "Empty" -> self
           [] OTHER -> [self EXCEPT !.panic = PanicClosed]

\* The receive step of poll.
poll_recv(self) ==
    IF self.state # "Pending" THEN self
    ELSE IF self.recv = None THEN [self EXCEPT !.panic = PanicNoRecv]
    ELSE LET id == self.recv[1] IN
         CASE try_recv(id) = "Ok" ->
                [self EXCEPT !.data = Some([res |-> tasks[id].res[1], from |-> id]),
                             !.last_complete_time = CURR_FRAME,
                             !.state = "Finished",
                             !.recv = None]
           [] try_recv(id) = "Empty" -> self
           [] OTHER -> [self EXCEPT !.panic = PanicClosed]

\* Mutant of poll: the receive step runs before the retention step.
poll_receives_before_gc(self) ==
    IF self.panic # NoPanic THEN self
    ELSE IF poll_short_circuit(self) THEN self
    ELSE poll_gc(poll_recv([self EXCEPT !.drawn_time_prev = self.drawn_time_last,
                                        !.drawn_time_last = CURR_FRAME]))

\* Mutant of poll: the frame time of this poll is not recorded in drawn_time_last.
poll_forgets_drawn_time(self) ==
    IF self.panic # NoPanic THEN self
    ELSE IF poll_short_circuit(self) THEN self
    ELSE poll_recv(poll_gc([self EXCEPT !.drawn_time_prev = self.drawn_time_last]))

\* Bind::poll
poll(self) ==
    IF self.panic # NoPanic THEN self
    ELSE IF poll_short_circuit(self) THEN self
    ELSE poll_recv(poll_gc([self EXCEPT !.drawn_time_prev = self.drawn_time_last,
                                        !.drawn_time_last = CURR_FRAME]))

\* Bind::prepare_channel
prepare_channel(self) ==
    LET p == poll(self) IN
    IF p.panic # NoPanic THEN p
    ELSE [p EXCEPT !.last_start_time = CURR_FRAME, !.state = "Pending"]

\* Mutant of request: a request that replaces an operation in flight is not counted.
request_counts_no_replacement(self) ==
    LET p == prepare_channel(self) IN
    IF p.panic # NoPanic THEN p
    ELSE [p EXCEPT !.recv = Some(Len(tasks) + 1),
                   !.times_executed = IF poll(self).state = "Pending"
                                      THEN p.times_executed
                                      ELSE p.times_executed + 1]

\* Bind::request; the channel created for the new future is channel Len(tasks) + 1.
request(self) ==
    LET p == prepare_channel(self) IN
    IF p.panic # NoPanic THEN p
    ELSE [p EXCEPT !.recv = Some(Len(tasks) + 1),
                   !.times_executed = p.times_executed + 1]

\* Mutant of clear: the data is dropped but the state is not reset.
clear_keeps_state(self) ==
    LET p == poll(self) IN
    IF p.panic # NoPanic THEN p
    ELSE [p EXCEPT !.data = None]

\* Bind::clear
clear(self) ==
    LET p == poll(self) IN
    IF p.panic # NoPanic THEN p
    ELSE [p EXCEPT !.state = "Idle", !.data = None]

\* Mutant of refresh: the request is started without clearing first.
refresh_without_clear(self) == request(self)

\* Bind::refresh
refresh(self) == request(clear(self))

\* Mutant of take: the state is reset but the data is left in place.
take_leaves_data(self) ==
    LET p == poll(self) IN
    IF p.panic # NoPanic THEN p
    ELSE IF p.state = "Finished"
         THEN IF p.data = None THEN [p EXCEPT !.panic = PanicTake]
              ELSE [p EXCEPT !.state = "Idle"]
         ELSE p

\* Mutant of take: the data is moved out but the state is not reset.
take_keeps_state(self) ==
    LET p == poll(self) IN
    IF p.panic # NoPanic THEN p
    ELSE IF p.state = "Finished"
         THEN IF p.data = None THEN [p EXCEPT !.panic = PanicTake]
              ELSE [p EXCEPT !.data = None]
         ELSE p

\* Bind::take, the Bind it leaves behind.
take(self) ==
    LET p == poll(self) IN
    IF p.panic # NoPanic THEN p
    ELSE IF p.state = "Finished"
         THEN IF p.data = None THEN [p EXCEPT !.panic = PanicTake]
              ELSE [p EXCEPT !.state = "Idle", !.data = None]
         ELSE p

\* Bind::take, the value it returns.
take_ret(self) ==
    LET p == poll(self) IN
    IF p.panic = NoPanic /\ p.state = "Finished" THEN p.data ELSE None

\* Mutant of fill: the Idle precondition is not asserted.
fill_unchecked(self, data) ==
    LET p == poll(self) IN
    IF p.panic # NoPanic THEN p
    ELSE [p EXCEPT !.state = "Finished",
                   !.last_complete_time = CURR_FRAME,
                   !.data = Some([res |-> data, from |-> 0])]

\* Bind::fill
fill(self, data) ==
    LET p == poll(self) IN
    IF p.panic # NoPanic THEN p
    ELSE IF p.state # "Idle" THEN [p EXCEPT !.panic = PanicFill]
    ELSE [p EXCEPT !.state = "Finished",
                   !.last_complete_time = CURR_FRAME,
                   !.data = Some([res |-> data, from |-> 0])]

\* Bind::since_completed, the value it returns (after its poll).
since_completed(self) == CURR_FRAME - poll(self).last_complete_time

\* Mutant of request_every_sec: the request is also started when exactly secs have
\* passed.
request_every_sec_at_interval(self, secs) ==
    LET p == poll(self) IN
    IF p.panic # NoPanic THEN p
    ELSE IF p.state # "Pending" /\ since_completed(self) >= secs
         THEN request(p)
         ELSE p

\* Bind::request_every_sec
request_every_sec(self, secs) ==
    LET p == poll(self) IN
    IF p.panic # NoPanic THEN p
    ELSE IF p.state # "Pending" /\ since_completed(self) > secs
         THEN request(p)
         ELSE p

\* egui.rs: const REFRESH_DEBOUNCE_FACTOR: f64 = 4.0
REFRESH_DEBOUNCE_FACTOR == 4

\* UiExt::refresh_button, the Bind it leaves behind. `since_completed() > secs / 4.0`
\* is compared without the division, which is exact on the integers of the model.
refresh_button(self, secs, clicked) ==
    LET p == poll(self) IN
    IF p.panic # NoPanic THEN p
    ELSE IF since_completed(self) * REFRESH_DEBOUNCE_FACTOR > secs /\ clicked
         THEN refresh(p)
         ELSE request_every_sec(p, secs)

\* UiExt::refresh_button, the `diff` it shows in the tooltip.
refresh_button_diff(self, secs, clicked) ==
    IF since_completed(self) * REFRESH_DEBOUNCE_FACTOR > secs /\ clicked
    THEN -1
    ELSE secs - since_completed(self)

\* Bind::state, the Bind it leaves behind (the fallback branch demotes to Idle).
state(self) ==
    LET p == poll(self) IN
    IF p.panic = NoPanic /\ p.state = "Finished" /\ p.data = None
    THEN [p EXCEPT !.state = "Idle"]
    ELSE p

\* Bind::state, the StateWithData it returns.
state_ret(self) ==
    LET p == poll(self) IN
    CASE p.state = "Idle" -> "Idle"
      [] p.state = "Pending" -> "Pending"
      [] p.state = "Finished" /\ p.data = None -> "Idle"
      [] p.state = "Finished" /\ p.data[1].res.ok -> "Finished"
      [] OTHER -> "Failed"

\* Mutant of read_or_request: the request is started whenever no data is stored.
read_or_request_when_no_data(self) ==
    LET p == poll(self) IN
    IF p.panic # NoPanic THEN p
    ELSE IF p.data = None THEN request(p) ELSE p

\* Bind::read_or_request and Bind::read_mut_or_request
read_or_request(self) ==
    LET p == poll(self) IN
    IF p.panic # NoPanic THEN p
    ELSE IF p.data = None /\ p.state = "Idle" THEN request(p) ELSE p

\* Bind::read_or_request, the Option it returns: self.data.as_ref()
read_or_request_ret(self) == read_or_request(self).data

\* Bind::state_or_request
state_or_request(self) == state(read_or_request(self))

\* Bind::state_or_request, the StateWithData it returns.
state_or_request_ret(self) == state_ret(read_or_request(self))

\* Bind::just_completed, the value it returns (after its poll).
just_completed(self) == poll(self).last_complete_time = CURR_FRAME

\* Mutant of on_finished: the closure is invoked whenever a result is stored.
on_finished_whenever_data(self) == poll(self).data

\* Bind::on_finished: what the closure is invoked with, None when it is not invoked.
on_finished(self) ==
    IF just_completed(self) /\ poll(self).data # None THEN poll(self).data ELSE None

\* Bind::just_started, the value it returns (after its poll).
just_started(self) == poll(self).last_start_time = CURR_FRAME

\* Bind::count_executed (takes &self: it does not poll).
count_executed(self) == self.times_executed

\* ------------------------------------------------------------------ tasks
\* A task that has finished and whose channel no longer has a receiver: nothing of
\* it can be observed any more.
Done == [st |-> "done", res |-> None]

\* ASYNC_RUNTIME.spawn(Self::req_inner(f, tx)): the task list after a Bind operation
\* that turned `bind` into `after`. The operation reached the spawn exactly when it
\* installed the receiver of the fresh channel. What the future resolves to is
\* decided when it completes.
spawn(after) ==
    IF after.recv = Some(Len(tasks) + 1)
    THEN Append(tasks, [st |-> "running", res |-> None])
    ELSE tasks

\* Mutant of drop_receivers: dropping a receiver also stops the task that owns the
\* sender.
drop_receivers_cancels(ts, after) ==
    [i \in 1..Len(ts) |-> IF after.recv = Some(i) THEN ts[i] ELSE Done]

\* Dropping a oneshot::Receiver (recv overwritten by request, or set to None by poll)
\* frees whatever its channel holds: only the channel whose receiver the Bind `after`
\* still owns keeps its content.
drop_receivers(ts, after) ==
    [i \in 1..Len(ts) |->
        IF after.recv = Some(i) \/ ts[i].st = "running" THEN ts[i] ELSE Done]

\* Whether the receiver of channel id is still alive (owned by the Bind).
receiver_alive(id) == bind.recv = Some(id)

\* Mutant of request_repaint: the task asks for a repaint whether or not its send
\* succeeded.
request_repaint_after_any_send(id) == CTX # None

\* Bind::req_inner, whether it calls ctx.request_repaint(): only when tx.send returned
\* Ok(()), and only if loop_handle has stored the context.
request_repaint(id) == receiver_alive(id) /\ CTX # None

\* Bind::req_inner after `fut.await` produced result: tx.send(result) succeeds while
\* the receiver is alive; otherwise the result is dropped with a warning.
req_inner(id, result) ==
    IF receiver_alive(id)
    THEN [tasks EXCEPT ![id] = [st |-> "sent", res |-> Some(result)]]
    ELSE [tasks EXCEPT ![id] = Done]

\* The future of task id panics inside `fut.await`: the sender is dropped unsent,
\* which closes the channel if its receiver is still alive.
sender_dropped(id) ==
    IF receiver_alive(id)
    THEN [tasks EXCEPT ![id].st = "panicked"]
    ELSE [tasks EXCEPT ![id] = Done]

\* ------------------------------------------------------------------ actions
\* `ret` of an operation that returns nothing, or whose return value is a projection
\* of the Bind it leaves behind.
NoRet == [data |-> None, secs |-> 0, view |-> "none", flag |-> FALSE, called |-> None,
          count |-> 0, woke |-> FALSE]

Min(a, b) == IF a < b THEN a ELSE b

\* The tasks among ids that still run or whose channel still has its receiver.
Existing(ids, ts) == {i \in ids : ts[i] # Done}

\* Whether the poll that opens every operation on self receives a result.
received(self) ==
    LET p == poll(self) IN p.panic = NoPanic /\ self.recv # None /\ p.recv = None

\* The task whose in-flight operation the poll that opens every operation on self
\* abandons: its retention step resets a Pending Bind to Idle.
Collected(self) ==
    IF self.state = "Pending" /\ self.recv # None /\ poll(self).state = "Idle"
    THEN {self.recv[1]}
    ELSE {}

\* What the operation named name, which leaves the Bind as after, makes happen: it
\* spawns a future exactly when it installs the receiver of the fresh channel, and it
\* records a completion when its poll receives or when it is a fill that succeeds.
Events(name, after) ==
    (IF after.recv = Some(Len(tasks) + 1) THEN {"started"} ELSE {})
    \cup (IF received(bind) \/ (name = "fill" /\ after.panic = NoPanic)
          THEN {"completed"} ELSE {})

\* A Bind operation named name, given a, that leaves the Bind as after and returns r;
\* dropped are the tasks whose in-flight operation it abandons after its poll, which
\* may have abandoned one itself. (after, r and dropped
\* are bound through singleton sets so that each is computed once per step.)
BindOp(name, a, after, r, dropped) ==
    \E aft \in {after}, rt \in {r}, dr \in {dropped} :
        /\ bind.panic = NoPanic
        /\ aft.recv = Some(Len(tasks) + 1) => Len(tasks) < MaxTasks
        /\ bind' = aft
        /\ tasks' = drop_receivers(spawn(aft), aft)
        /\ abandoned' = Existing(abandoned \cup dr \cup Collected(bind), tasks')
        /\ tick_events' = tick_events \cup Events(name, aft)
        /\ op' = name
        /\ arg' = a
        /\ ret' = rt
        /\ sinceQuery' = 0
        /\ lastGap' = sinceQuery
        /\ pre_state' = bind.state
        /\ UNCHANGED << CURR_FRAME, LAST_FRAME, CTX >>

\* The history of a step named name that is no Bind operation.
NotBindOp(name) ==
    /\ op' = name
    /\ arg' = None
    /\ ret' = NoRet
    /\ lastGap' = 0
    /\ pre_state' = "Idle"

\* Mutant of loop_handle: the new time is stored in both statics.
loop_handle_stores_time_twice(time) ==
    [CURR |-> time, LAST |-> time, CTX |-> Some("egui::Context")]

\* ContextExt::loop_handle, the statics it leaves: CTX.get_or_init stores the context
\* in the first call, and CURR_FRAME.swap(time) returns the old current time, which
\* is stored in LAST_FRAME.
loop_handle(time) ==
    [CURR |-> time, LAST |-> CURR_FRAME, CTX |-> Some("egui::Context")]

\* ContextExt::loop_handle when egui reports the frame time t.
Advance(t) ==
    /\ bind.panic = NoPanic
    /\ CURR_FRAME' = loop_handle(t).CURR
    /\ LAST_FRAME' = loop_handle(t).LAST
    /\ CTX' = loop_handle(t).CTX
    /\ sinceQuery' = Min(sinceQuery + 1, 2)
    /\ tick_events' = {}
    /\ op' = "loop_handle"
    /\ arg' = Some(t)
    /\ ret' = NoRet
    /\ lastGap' = 0
    /\ pre_state' = "Idle"
    /\ UNCHANGED << bind, tasks, abandoned >>

\* ContextExt::loop_handle with the frame time t reported by egui. It is called once
\* per frame and egui's frame time strictly increases from frame to frame.
LoopHandle ==
    \E t \in (CURR_FRAME + 1)..MaxTime : Advance(t)

\* ContextExt::loop_handle called a second time within a frame: egui reports the
\* frame time it reported to the call before.
LoopHandleAgain ==
    op = "loop_handle" /\ Advance(CURR_FRAME)

\* Bind::read (and every query that polls and then projects a field).
Read ==
    BindOp("read", None, poll(bind), NoRet, {})

\* Bind::state
State ==
    BindOp("state", None, state(bind), [NoRet EXCEPT !.view = state_ret(bind)], {})

\* Bind::just_completed
JustCompleted ==
    BindOp("just_completed", None, poll(bind),
           [NoRet EXCEPT !.flag = poll(bind).panic = NoPanic /\ just_completed(bind)], {})

\* Bind::on_finished
OnFinished ==
    BindOp("on_finished", None, poll(bind),
           [NoRet EXCEPT !.called = IF poll(bind).panic = NoPanic
                                    THEN on_finished(bind) ELSE None], {})

\* Bind::just_started
JustStarted ==
    BindOp("just_started", None, poll(bind),
           [NoRet EXCEPT !.flag = poll(bind).panic = NoPanic /\ just_started(bind)], {})

\* Bind::count_executed: it reads the counter and touches nothing, the frame times
\* of the Bind included.
CountExecuted ==
    /\ bind.panic = NoPanic
    /\ op' = "count_executed"
    /\ arg' = None
    /\ ret' = [NoRet EXCEPT !.count = count_executed(bind)]
    /\ lastGap' = sinceQuery
    /\ pre_state' = bind.state
    /\ UNCHANGED << CURR_FRAME, LAST_FRAME, CTX, bind, tasks, sinceQuery, abandoned,
                    tick_events >>

Take ==
    BindOp("take", None, take(bind), [NoRet EXCEPT !.data = take_ret(bind)], {})

\* The task whose operation is in flight once self has been polled, if any.
InFlight(self) ==
    LET p == poll(self) IN
    IF p.panic = NoPanic /\ p.state = "Pending" /\ p.recv # None THEN {p.recv[1]} ELSE {}

Clear ==
    BindOp("clear", None, clear(bind), NoRet, InFlight(bind))

FillWith(data) ==
    BindOp("fill", Some(data), fill(bind, data), NoRet, {})

Fill ==
    \E data \in Results : FillWith(data)
    
Request ==
    BindOp("request", None, request(bind), NoRet, {})

Refresh ==
    BindOp("refresh", None, refresh(bind), NoRet, InFlight(bind))

\* Bind::request_every_sec with the interval secs.
RequestEvery(secs) ==
    BindOp("request_every_sec", Some(secs), request_every_sec(bind, secs),
           [NoRet EXCEPT !.secs = secs - since_completed(bind)], {})

RequestEverySec == \E secs \in 0..MaxSecs : RequestEvery(secs)
    
ReadOrRequest ==
    BindOp("read_or_request", None, read_or_request(bind), NoRet, {})

StateOrRequest ==
    BindOp("state_or_request", None, state_or_request(bind),
           [NoRet EXCEPT !.view = state_or_request_ret(bind)], {})

\* The future of task id resolves to some result and req_inner sends it.
TaskSendBy(id) ==
    \E result \in Results :
        /\ bind.panic \in {NoPanic, Dropped}
        /\ tasks[id].st = "running"
        /\ tasks' = req_inner(id, result)
        /\ abandoned' = Existing(abandoned, tasks')
        /\ op' = "task_send"
        /\ arg' = None
        /\ ret' = [NoRet EXCEPT !.woke = request_repaint(id)]
        /\ lastGap' = 0
        /\ pre_state' = "Idle"
        /\ UNCHANGED << CURR_FRAME, LAST_FRAME, CTX, bind, sinceQuery, tick_events >>

TaskSend == \E id \in 1..Len(tasks) : TaskSendBy(id)

\* An interval so long that every two frames of the model are less than a quarter of
\* it apart.
LongSecs == REFRESH_DEBOUNCE_FACTOR * (MaxTime + 1)

\* The refresh button is drawn: the user clicks it or not.
RefreshButton ==
    \E secs \in (0..MaxSecs) \cup {LongSecs}, clicked \in BOOLEAN :
        BindOp("refresh_button", Some([secs |-> secs, clicked |-> clicked]),
               refresh_button(bind, secs, clicked),
               [NoRet EXCEPT !.secs = refresh_button_diff(bind, secs, clicked)],
               IF since_completed(bind) * REFRESH_DEBOUNCE_FACTOR > secs /\ clicked
               THEN InFlight(bind) ELSE {})

\* A spawned future panics inside `fut.await`: the sender is dropped unsent.
TaskPanic ==
    \E id \in 1..Len(tasks) :
        /\ bind.panic \in {NoPanic, Dropped}
        /\ tasks[id].st = "running"
        /\ tasks' = sender_dropped(id)
        /\ abandoned' = Existing(abandoned, tasks')
        /\ NotBindOp("task_panic")
        /\ UNCHANGED << CURR_FRAME, LAST_FRAME, CTX, bind, sinceQuery, tick_events >>

\* The owner drops the Bind: its receiver, if it holds one, is dropped with it.
DropBind ==
    /\ bind.panic = NoPanic
    /\ bind' = [bind EXCEPT !.recv = None, !.panic = Dropped]
    /\ tasks' = drop_receivers(tasks, bind')
    /\ abandoned' = Existing(abandoned, tasks')
    /\ NotBindOp("drop")
    /\ UNCHANGED << CURR_FRAME, LAST_FRAME, CTX, sinceQuery, tick_events >>

Init ==
    /\ CURR_FRAME = 0
    /\ LAST_FRAME = 0
    /\ CTX = None
    /\ \E retain \in BOOLEAN : bind = new(retain)
    /\ tasks = << >>
    /\ op = "new"
    /\ arg = None
    /\ ret = NoRet
    /\ sinceQuery = 2
    /\ lastGap = 0
    /\ pre_state = "Idle"
    /\ abandoned = {}
    /\ tick_events = {}

Next ==
    \/ LoopHandle
    \/ Read
    \/ State
    \/ Take
    \/ Clear
    \/ Fill
    \/ Request
    \/ Refresh
    \/ RequestEverySec
    \/ ReadOrRequest
    \/ StateOrRequest
    \/ JustCompleted
    \/ OnFinished
    \/ JustStarted
    \/ CountExecuted
    \/ TaskSend
    \/ TaskPanic

Spec == Init /\ [][Next]_vars

\* The same program when loop_handle may also be called more than once per frame.
NextRepeat == Next \/ LoopHandleAgain

SpecRepeat == Init /\ [][NextRepeat]_vars

\* A panel whose only uses of the Bind are the refresh button and a read.
NextButton == LoopHandle \/ RefreshButton \/ Read \/ TaskSend \/ TaskPanic

SpecButton == Init /\ [][NextButton]_vars

\* A host that starts one request and from then on draws the Bind in every frame.
\* Before the request it may skip frames and queries. The clock of the model ends at
\* MaxTime: the request is started while a later frame exists, and the last frame
\* begins only when no task is still running.
LiveRequest ==
    /\ bind.times_executed = 0
    /\ CURR_FRAME < MaxTime
    /\ Request

LiveQuery == Read \/ State \/ JustCompleted \/ OnFinished \/ JustStarted

LiveLoopHandle ==
    /\ bind.state = "Pending" => sinceQuery = 0
    /\ \E t \in (CURR_FRAME + 1)..MaxTime :
          /\ t = MaxTime => \A i \in 1..Len(tasks) : tasks[i].st # "running"
          /\ Advance(t)

NextLive == LiveLoopHandle \/ LiveQuery \/ LiveRequest \/ TaskSend

\* The program's own state and the label of the last step: what a step that counts
\* for fairness changes.
progress == << CURR_FRAME, LAST_FRAME, CTX, bind, tasks, op, sinceQuery >>

\* Fairness: the task completes and sends, the host keeps producing frames and keeps
\* querying the Bind.
SpecLive ==
    /\ Init
    /\ [][NextLive]_vars
    /\ WF_progress(TaskSend)
    /\ WF_progress(LiveLoopHandle)
    /\ WF_progress(LiveQuery)

\* A host that refreshes the Bind periodically, with intervals up to the whole run of
\* the clock, fills or requests it by hand, reads it and skips frames.
RequestEveryLongSec == \E secs \in 0..MaxTime : RequestEvery(secs)

NextEvery == LoopHandle \/ Read \/ Fill \/ Request \/ RequestEveryLongSec \/ TaskSend

SpecEvery == Init /\ [][NextEvery]_vars

\* The program under the two conditions its callers can meet: no future panics, so
\* every task sends, and fill is called only on a Bind whose poll leaves it Idle.
FillIdle ==
    /\ poll(bind).state = "Idle"
    /\ Fill

NextSound ==
    \/ LoopHandle \/ Read \/ State \/ Take \/ Clear \/ FillIdle \/ Request \/ Refresh
    \/ RequestEverySec \/ ReadOrRequest \/ StateOrRequest \/ JustCompleted
    \/ OnFinished \/ JustStarted \/ CountExecuted \/ TaskSend

SpecSound == Init /\ [][NextSound]_vars

\* The same program when the owner of the Bind may drop it.
NextDrop == Next \/ DropBind

SpecDrop == Init /\ [][NextDrop]_vars

\* ------------------------------------------------------------------ claims
\* The names `op` gives to the operations of Bind that poll.
BindOps == { "read", "state", "take", "clear", "fill", "request", "refresh",
             "request_every_sec", "read_or_request", "state_or_request",
             "just_completed", "on_finished", "just_started" }

\* The operations that only poll and project.
QueryOps == { "read", "state", "just_completed", "on_finished", "just_started" }

\* C1: in every reachable state, data is present if and only if state is Finished.
C1_DataIffFinished ==
    (bind.data # None) <=> (bind.state = "Finished")

\* C2: in every reachable state, the receiver is present if and only if state is
\* Pending.
C2_RecvIffPending ==
    (bind.recv # None) <=> (bind.state = "Pending")

\* C3: retention law. A Bind with retain = false that is Finished and has not been
\* queried in the previous tick (nor yet in this one) is found Idle with no data by
\* the next read or take, and take returns None.
C3_RetentionLaw ==
    [][ (/\ ~bind.retain
         /\ bind.state = "Finished"
         /\ sinceQuery = 2
         /\ op' \in {"read", "take"})
        => (/\ bind'.state = "Idle"
            /\ bind'.data = None
            /\ ret'.data = None) ]_vars

C3_Witness ==
    /\ ~bind.retain
    /\ op = "take"
    /\ lastGap = 2
    /\ pre_state = "Finished"
    /\ bind.state = "Idle"
    /\ bind.data = None
    /\ ret.data = None

\* C4: retention counter-law. While a Bind with retain = true is Finished, no clock
\* advance, query or task step changes its state or its data, however many ticks pass
\* without a query.
C4_RetentionCounterLaw ==
    [][ (/\ bind.retain
         /\ bind.state = "Finished"
         /\ op' \in QueryOps \cup {"loop_handle", "task_send", "task_panic"})
        => (/\ bind'.state = "Finished"
            /\ bind'.data = bind.data
            /\ bind'.data # None) ]_vars

C4_Witness ==
    /\ bind.retain
    /\ op = "read"
    /\ lastGap = 2
    /\ pre_state = "Finished"
    /\ bind.state = "Finished"
    /\ bind.data # None

\* C5: round trip. (a) The data a poll stores for a dispatched operation is exactly
\* the value its task sent. (b) take on a Finished Bind (queried in this or the
\* previous tick, or retained) returns exactly the stored value and leaves the Bind
\* Idle with no data. (c) A take right after a take that returned the value returns
\* None and finds the Bind Idle.
C5_RoundTrip ==
    [][ /\ (/\ bind'.data # None
            /\ bind'.data # bind.data
            /\ bind'.data[1].from # 0)
           => (/\ bind.recv = Some(bind'.data[1].from)
               /\ tasks[bind'.data[1].from].st = "sent"
               /\ tasks[bind'.data[1].from].res = Some(bind'.data[1].res))
        /\ (/\ op' = "take"
            /\ bind.state = "Finished"
            /\ bind.retain \/ sinceQuery <= 1)
           => (/\ ret'.data = bind.data
               /\ ret'.data # None
               /\ bind'.state = "Idle"
               /\ bind'.data = None)
        /\ (op' = "take" /\ op = "take" /\ ret.data # None)
           => (ret'.data = None /\ bind'.state = "Idle" /\ bind'.data = None) ]_vars

C5_Witness ==
    /\ op = "take"
    /\ pre_state = "Finished"
    /\ ret.data # None
    /\ ret.data[1].from # 0
    /\ bind.state = "Idle"
    /\ bind.data = None

\* C6: idempotent same-tick poll. Once the Bind has been queried in a tick, a further
\* query in that tick changes nothing in the Bind, and no further operation in that
\* tick shifts drawn_time_prev / drawn_time_last or receives from the channel (no data
\* appears and last_complete_time stays, except through fill).
C6_SameTickPollIdempotent ==
    [][ (sinceQuery = 0 /\ op' \in BindOps)
        => (/\ op' \in QueryOps => bind' = bind
            /\ bind'.drawn_time_prev = bind.drawn_time_prev
            /\ bind'.drawn_time_last = bind.drawn_time_last
            /\ op' # "fill"
               => (/\ bind'.last_complete_time = bind.last_complete_time
                   /\ bind'.data \in {bind.data, None}
                   /\ bind'.state = "Finished" => bind.state = "Finished")) ]_vars

\* A second query in a tick after the first, while the task's value waits in the channel.
C6_Witness ==
    /\ op = "read"
    /\ lastGap = 0
    /\ CURR_FRAME > 0
    /\ bind.drawn_time_prev # bind.drawn_time_last
    /\ bind.state = "Pending"
    /\ bind.recv # None
    /\ tasks[bind.recv[1]].st = "sent"

\* C7: abandoned completion discarded. The result of a task whose operation was in
\* flight when clear or refresh ran is never stored in the Bind and never returned by
\* take.
C7_AbandonedNeverSurfaces ==
    [][ /\ (bind'.data # None /\ bind'.data # bind.data)
           => bind'.data[1].from \notin abandoned
        /\ ret'.data # None
           => ret'.data[1].from \notin abandoned ]_vars

\* The abandoned task's value has arrived, and a working poll of a later tick left it
\* unobserved.
C7_Witness ==
    /\ \E id \in abandoned : tasks[id].st = "sent"
    /\ op \in {"read", "take"}
    /\ lastGap = 1
    /\ bind.data = None
    /\ ret.data = None

\* C8: while the Bind is Pending, request starts no second operation: no task is
\* spawned, the receiver is not replaced and times_executed is unchanged.
C8_RequestWhilePendingStartsNothing ==
    [][ (/\ op' = "request"
         /\ sinceQuery = 0
         /\ bind.state = "Pending")
        => (/\ Len(tasks') = Len(tasks)
            /\ bind'.recv = bind.recv
            /\ bind'.times_executed = bind.times_executed) ]_vars

\* C9: fill(data) on a Bind whose post-poll state is Idle makes it Finished with
\* exactly data, completed at the current frame time, without spawning a task,
\* creating a receiver or counting an execution; on any other post-poll state it
\* panics and stores nothing.
C9_Fill ==
    [][ op' = "fill"
        => LET p == poll(bind) IN
           p.panic = NoPanic
           => IF p.state = "Idle"
              THEN /\ bind'.panic = NoPanic
                   /\ bind'.state = "Finished"
                   /\ bind'.data = Some([res |-> arg'[1], from |-> 0])
                   /\ bind'.last_complete_time = CURR_FRAME
                   /\ tasks' = tasks
                   /\ bind'.recv = bind.recv
                   /\ bind'.times_executed = bind.times_executed
              ELSE /\ bind'.panic = PanicFill
                   /\ bind'.state = p.state
                   /\ bind'.data = p.data ]_vars

\* A second fill in the same tick.
C9_Witness ==
    /\ op = "fill"
    /\ lastGap = 0
    /\ pre_state = "Finished"
    /\ bind.panic = PanicFill
    /\ bind.state = "Finished"
    /\ bind.data # None

\* C10: when the Bind is Pending, its task has dropped the sender without sending,
\* and an operation polls it in a tick where the receive is attempted (the Bind was
\* queried in the previous tick, or is retained), the operation panics with the
\* closed-channel message; the Bind stays Pending and its data is untouched.
C10_ClosedChannelIsFatal ==
    [][ (/\ bind.state = "Pending"
         /\ bind.recv # None
         /\ tasks[bind.recv[1]].st = "panicked"
         /\ sinceQuery = 1 \/ (bind.retain /\ sinceQuery = 2)
         /\ op' \in BindOps)
        => (/\ bind'.panic = PanicClosed
            /\ bind'.state = "Pending"
            /\ bind'.data = bind.data
            /\ bind'.recv = bind.recv) ]_vars

C10_Witness ==
    /\ bind.panic = PanicClosed
    /\ bind.state = "Pending"
    /\ op \in BindOps
    /\ lastGap = 1

\* C11: domain errors are data. When the task of a Pending Bind has sent its result and
\* an operation polls the Bind in a tick where the receive is attempted, the Bind
\* becomes Finished holding exactly that result, whether it is Ok or Err, and nothing
\* panics; for a stored Err, state() reports Failed, read() leaves Some(Err) in place
\* and take() returns Some(Err) without panicking.
C11_DomainErrorsAreData ==
    [][ /\ (/\ bind.state = "Pending"
            /\ bind.recv # None
            /\ tasks[bind.recv[1]].st = "sent"
            /\ sinceQuery = 1 \/ (bind.retain /\ sinceQuery = 2)
            /\ op' \in QueryOps)
           => (/\ bind'.panic = NoPanic
               /\ bind'.state = "Finished"
               /\ bind'.data = Some([res |-> tasks[bind.recv[1]].res[1],
                                     from |-> bind.recv[1]])
               /\ bind'.last_complete_time = CURR_FRAME
               /\ bind'.recv = None)
        /\ (/\ op' \in {"read", "state"}
            /\ bind'.state = "Finished"
            /\ bind'.data # None)
           => (/\ bind'.panic = NoPanic
               /\ op' = "state"
                  => ret'.view = IF bind'.data[1].res.ok THEN "Finished" ELSE "Failed")
        /\ (/\ op' = "take"
            /\ bind.state = "Finished"
            /\ bind.data # None
            /\ bind.retain \/ sinceQuery <= 1)
           => (/\ bind'.panic = NoPanic
               /\ ret'.data = bind.data
               /\ bind'.state = "Idle") ]_vars

\* state() reports Failed for the Err a task sent, received by this very call.
C11_Witness ==
    /\ op = "state"
    /\ lastGap = 1
    /\ pre_state = "Pending"
    /\ ret.view = "Failed"
    /\ bind.state = "Finished"
    /\ bind.data # None
    /\ bind.data[1].from # 0
    /\ ~bind.data[1].res.ok
    /\ bind.panic = NoPanic

\* C12: request_every_sec(f, secs) starts a request if and only if the state its poll
\* leaves is not Pending and elapsed = CURR_FRAME - last_complete_time (after the
\* poll) is strictly greater than secs; it returns secs - elapsed, with elapsed
\* measured before the request it may start; when it starts nothing it leaves the Bind
\* as the poll left it.
C12_RequestEverySec ==
    [][ op' = "request_every_sec"
        => LET p == poll(bind)
               elapsed == CURR_FRAME - p.last_complete_time
               secs == arg'[1]
           IN  p.panic = NoPanic
               => /\ ret'.secs = secs - elapsed
                  /\ IF p.state # "Pending" /\ elapsed > secs
                     THEN /\ Len(tasks') = Len(tasks) + 1
                          /\ tasks'[Len(tasks')].st = "running"
                          /\ bind'.state = "Pending"
                          /\ bind'.recv = Some(Len(tasks'))
                          /\ bind'.times_executed = bind.times_executed + 1
                          /\ bind'.last_complete_time = p.last_complete_time
                     ELSE /\ Len(tasks') = Len(tasks)
                          /\ bind' = p ]_vars

\* A completion recorded two time units ago, interval 1: the call starts a request and
\* returns -1.
C12_Witness ==
    /\ op = "request_every_sec"
    /\ arg = Some(1)
    /\ pre_state = "Finished"
    /\ CURR_FRAME - bind.last_complete_time = 2
    /\ ret.secs = -1
    /\ bind.state = "Pending"
    /\ "started" \in tick_events

\* C13 as stated: on a fresh Bind::new(true), request_every_sec(f, secs) called at
\* frame time 0 starts a request and returns secs, the full interval.
C13_FreshReturnsFullInterval ==
    [][ (/\ op' = "request_every_sec"
         /\ bind = new(TRUE)
         /\ CURR_FRAME = 0)
        => (/\ Len(tasks') = Len(tasks) + 1
            /\ bind'.state = "Pending"
            /\ ret'.secs = arg'[1]) ]_vars

\* C13 amended: on a fresh Bind::new(true), request_every_sec(f, secs) called at
\* frame time 0 starts a request and returns secs - (0 - f64::MIN), a negative value:
\* the time since the completion that never happened counts in full.
C13_FreshReturnsOverdue ==
    [][ (/\ op' = "request_every_sec"
         /\ bind = new(TRUE)
         /\ CURR_FRAME = 0)
        => (/\ Len(tasks') = Len(tasks) + 1
            /\ bind'.state = "Pending"
            /\ bind'.times_executed = 1
            /\ ret'.secs = arg'[1] - (0 - F64_MIN)
            /\ ret'.secs < 0) ]_vars

C13_Witness ==
    /\ op = "request_every_sec"
    /\ arg = Some(MaxSecs)
    /\ CURR_FRAME = 0
    /\ bind.retain
    /\ pre_state = "Idle"
    /\ bind.state = "Pending"
    /\ bind.times_executed = 1
    /\ bind.last_complete_time = F64_MIN
    /\ Len(tasks) = 1
    /\ ret.secs = MaxSecs + F64_MIN

\* C14: read_or_request(f) and state_or_request(f) start a request exactly when the
\* state their poll leaves is Idle with no data (and Idle never comes with data), never
\* when it is Pending or Finished, where they leave the Bind as the poll left it;
\* state_or_request then returns Pending. Called again in the same or the next tick
\* while the Bind is Pending or Finished, they start nothing.
C14_OrRequest ==
    [][ op' \in {"read_or_request", "state_or_request"}
        => /\ LET p == poll(bind) IN
              p.panic = NoPanic
              => /\ p.state = "Idle" => p.data = None
                 /\ IF p.state = "Idle"
                    THEN /\ Len(tasks') = Len(tasks) + 1
                         /\ tasks'[Len(tasks')].st = "running"
                         /\ bind'.state = "Pending"
                         /\ bind'.recv = Some(Len(tasks'))
                         /\ bind'.times_executed = bind.times_executed + 1
                         /\ op' = "state_or_request" => ret'.view = "Pending"
                    ELSE /\ Len(tasks') = Len(tasks)
                         /\ bind' = p
           /\ (sinceQuery <= 1 /\ bind.state \in {"Pending", "Finished"})
              => (/\ Len(tasks') = Len(tasks)
                  /\ bind'.times_executed = bind.times_executed) ]_vars

\* state_or_request called in the tick after the one in which it started the only
\* operation: it finds the result and starts nothing.
C14_Witness ==
    /\ op = "state_or_request"
    /\ ~bind.retain
    /\ lastGap = 1
    /\ pre_state = "Pending"
    /\ bind.state = "Finished"
    /\ ret.view \in {"Finished", "Failed"}
    /\ bind.times_executed = 1
    /\ Len(tasks) = 1

C16_OnFinishedOnlyInTickOfCompletion ==
    [][ op' = "on_finished"
        => /\ ret'.called # None
              => (/\ bind'.panic = NoPanic
                  /\ bind'.last_complete_time = CURR_FRAME
                  /\ "completed" \in tick_events'
                  /\ ret'.called = bind'.data)
           /\ bind'.last_complete_time = F64_MIN => ret'.called = None
           /\ (sinceQuery >= 1 /\ bind.state = "Finished") => ret'.called = None ]_vars

\* on_finished receives the result of the task in the call that invokes f with it.
C16_Witness ==
    /\ op = "on_finished"
    /\ lastGap = 1
    /\ pre_state = "Pending"
    /\ bind.state = "Finished"
    /\ ret.called # None
    /\ ret.called = bind.data
    /\ ret.called[1].from # 0

\* C17: just_completed() returns true only if a completion (a receive or a fill) was
\* recorded since the last loop_handle call, and just_started() returns true only if
\* an operation was started since the last loop_handle call; so both return false on
\* a Bind for which the event never occurred, at every frame time, the initial one
\* included.
C17_JustOnlyInTickOfEvent ==
    [][ /\ (op' = "just_completed" /\ ret'.flag) => "completed" \in tick_events'
        /\ (op' = "just_started" /\ ret'.flag) => "started" \in tick_events' ]_vars

\* C18 as stated: every query, count_executed included, runs poll before it projects:
\* after the call the Bind's drawn_time_last is the current frame time, and the Bind
\* is as poll leaves it.
C18_EveryQueryPolls ==
    [][ op' \in QueryOps \cup {"count_executed"}
        => (bind'.panic = NoPanic
            => /\ bind'.drawn_time_last = CURR_FRAME
               /\ bind' = poll(bind)) ]_vars

\* C18 amended: every query except count_executed runs poll before it projects: after
\* the call the Bind's drawn_time_last is the current frame time, so that the poll of
\* the next tick finds it drawn in the last frame, and the Bind is as poll leaves it.
\* count_executed returns times_executed without polling: it changes nothing, and the
\* Bind does not count as queried in that tick.
C18_EveryQueryButCountExecutedPolls ==
    [][ /\ op' \in QueryOps
           => (bind'.panic = NoPanic
               => /\ bind'.drawn_time_last = CURR_FRAME
                  /\ was_drawn_this_frame(bind')
                  /\ bind' = poll(bind)
                  /\ sinceQuery' = 0)
        /\ op' = "count_executed"
           => (/\ bind' = bind
               /\ tasks' = tasks
               /\ sinceQuery' = sinceQuery
               /\ ret'.count = bind.times_executed)
        /\ (op = "loop_handle" /\ sinceQuery = 1 /\ op' \in QueryOps
            /\ bind'.panic = NoPanic)
           => bind'.drawn_time_prev = LAST_FRAME ]_vars

\* count_executed on a Bind without retention whose result went unqueried for a tick:
\* the result a poll would clear stays in place, and drawn_time_last stays behind.
C18_Witness ==
    /\ op = "count_executed"
    /\ ~bind.retain
    /\ lastGap = 2
    /\ bind.state = "Finished"
    /\ bind.data # None
    /\ bind.drawn_time_last < LAST_FRAME
    /\ ret.count = 1
    /\ poll(bind).state = "Idle"

\* C19: loop_handle with frame time t stores the old CURR_FRAME in LAST_FRAME and t
\* in CURR_FRAME; of two calls in a row, the second leaves in LAST_FRAME the time
\* passed to the first; and no other step writes either static.
C19_ClockAdvance ==
    [][ /\ op' = "loop_handle"
           => (/\ LAST_FRAME' = CURR_FRAME
               /\ CURR_FRAME' = arg'[1])
        /\ (op = "loop_handle" /\ op' = "loop_handle")
           => (/\ LAST_FRAME' = arg[1]
               /\ CURR_FRAME' = arg'[1])
        /\ op' # "loop_handle"
           => (CURR_FRAME' = CURR_FRAME /\ LAST_FRAME' = LAST_FRAME) ]_vars

\* Two calls in a row, with frame times 1 and 2.
C19_Witness ==
    /\ op = "loop_handle"
    /\ arg = Some(2)
    /\ CURR_FRAME = 2
    /\ LAST_FRAME = 1
    /\ sinceQuery = 2

\* C20: loop_handle called a second time with the frame time of the call before it
\* changes neither CURR_FRAME nor LAST_FRAME.
C20_AdvanceIdempotent ==
    [][ (op = "loop_handle" /\ op' = "loop_handle" /\ arg' = arg)
        => (CURR_FRAME' = CURR_FRAME /\ LAST_FRAME' = LAST_FRAME) ]_vars

C22_ReadOrRequestReturn ==
    [][ (op' = "read_or_request" /\ bind'.panic = NoPanic)
        => LET p == poll(bind) IN
           /\ p.state = "Finished"
              => (/\ read_or_request_ret(bind) = p.data
                  /\ read_or_request_ret(bind) # None
                  /\ tasks' = drop_receivers(tasks, bind'))
           /\ (p.state = "Idle" /\ p.data = None)
              => (/\ read_or_request_ret(bind) = None
                  /\ Len(tasks') = Len(tasks) + 1)
           /\ bind'.state = "Pending" => read_or_request_ret(bind) = None ]_vars

\* C23: a click on the refresh button does nothing when the last refresh was started
\* on an earlier frame less than secs / 4 ago (every operation of the panel is
\* started by the button): such a click starts no operation.
C23_ClickDebounced ==
    [][ (/\ op' = "refresh_button"
         /\ arg'[1].clicked
         /\ bind'.panic = NoPanic
         /\ bind.times_executed > 0
         /\ bind.last_start_time < CURR_FRAME
         /\ (CURR_FRAME - bind.last_start_time) * REFRESH_DEBOUNCE_FACTOR < arg'[1].secs)
        => Len(tasks') = Len(tasks) ]_vars

\* C24: times_executed is the number of tasks ever spawned for the Bind (tasks keeps
\* one entry per task spawned, finished or not), whatever polls, retention steps,
\* receives, fills, takes and clears happened in between, and count_executed()
\* returns that number.
C24_ExecutionCount ==
    /\ bind.times_executed = Len(tasks)
    /\ op = "count_executed" => ret.count = Len(tasks)

\* Two tasks were spawned, the second one over a Bind that was filled by hand and
\* emptied again, and count_executed() returns 2.
C24_Witness ==
    /\ op = "count_executed"
    /\ ret.count = 2
    /\ bind.times_executed = 2
    /\ bind.state = "Idle"
    /\ bind.data = None
    /\ bind.last_complete_time > bind.last_start_time

\* C25: when a Bind with retain == false is Pending and its last query is at least
\* two frames old, the poll of the next operation resets it to Idle without data and
\* attempts no receive: the receiver and the channel are left as they were, even if
\* the value has been sent, nothing is stored and no completion time is recorded;
\* the operation counts as abandoned, and the result of an abandoned operation is
\* never stored in the Bind nor returned.
C25_SilentGC ==
    [][ /\ (/\ op' \in BindOps
            /\ ~bind.retain
            /\ bind.state = "Pending"
            /\ sinceQuery = 2)
           => LET p == poll(bind) IN
              /\ p = [bind EXCEPT !.state = "Idle",
                                  !.data = None,
                                  !.drawn_time_prev = bind.drawn_time_last,
                                  !.drawn_time_last = CURR_FRAME]
              /\ Collected(bind) = {bind.recv[1]}
              /\ op' \in QueryOps => (bind' = p /\ tasks' = tasks)
              /\ tasks'[bind.recv[1]] # Done => bind.recv[1] \in abandoned'
        /\ \A id \in abandoned \cup Collected(bind) :
              /\ bind'.data # None => bind'.data[1].from # id
              /\ ret'.data # None => ret'.data[1].from # id ]_vars

\* The retention step has reset a Pending Bind whose task had already sent: the Bind
\* is Idle without data and the value still sits in the channel of its receiver.
C25_Witness ==
    /\ op \in QueryOps
    /\ pre_state = "Pending"
    /\ lastGap = 2
    /\ ~bind.retain
    /\ bind.state = "Idle"
    /\ bind.data = None
    /\ bind.recv # None
    /\ tasks[bind.recv[1]].st = "sent"
    /\ bind.recv[1] \in abandoned

\* C26: once the request is started, the Bind stays Pending through every poll made
\* before its task has sent, and the value r the task sends is eventually the data of
\* the Finished Bind, with retain and without.
C26_EventuallyFinished ==
    /\ [][ (/\ op' \in QueryOps
            /\ bind.state = "Pending"
            /\ tasks[bind.recv[1]].st = "running")
           => (bind'.state = "Pending" /\ bind'.recv = bind.recv) ]_progress
    /\ (bind.state = "Pending") ~> (bind.recv # None /\ tasks[bind.recv[1]].st = "sent")
    /\ \A r \in Results :
          (/\ bind.state = "Pending"
           /\ bind.recv # None
           /\ tasks[bind.recv[1]] = [st |-> "sent", res |-> Some(r)])
          ~> (/\ bind.state = "Finished"
              /\ bind.data = Some([res |-> r, from |-> 1]))

\* The request was started over a Bind that is not retained, two frames passed, and
\* the Bind is Finished with the value its task sent.
C26_Witness ==
    /\ ~bind.retain
    /\ bind.state = "Finished"
    /\ bind.data # None
    /\ bind.data[1].from = 1
    /\ bind.last_start_time = 0
    /\ bind.last_complete_time = MaxTime
    /\ op \in QueryOps

\* C27: a Pending Bind becomes Finished only in the poll that opens an operation on
\* it, and all at once: the data is the value its task sent, the receiver is dropped
\* and last_complete_time is the frame time of that poll, which is not before
\* last_start_time. An operation that leaves a Bind Finished that it found Pending
\* either keeps what that poll stored, or is a fill whose poll reset the Bind to Idle
\* first; no step of a task or of the clock changes the state.
C27_PendingToFinishedInPoll ==
    [][ LET p == poll(bind) IN
        /\ (bind.state = "Pending" /\ p.state = "Finished")
           => (/\ bind.recv # None
               /\ tasks[bind.recv[1]].st = "sent"
               /\ p = [bind EXCEPT
                         !.data = Some([res |-> tasks[bind.recv[1]].res[1],
                                        from |-> bind.recv[1]]),
                         !.recv = None,
                         !.state = "Finished",
                         !.last_complete_time = CURR_FRAME,
                         !.drawn_time_prev = bind.drawn_time_last,
                         !.drawn_time_last = CURR_FRAME]
               /\ p.last_complete_time >= p.last_start_time)
        /\ (bind.state = "Pending" /\ bind'.state = "Finished")
           => (/\ op' \in BindOps
               /\ \/ /\ p.state = "Finished"
                     /\ bind'.data = p.data
                     /\ bind'.recv = None
                     /\ bind'.last_complete_time = CURR_FRAME
                  \/ /\ op' = "fill"
                     /\ p.state = "Idle")
        /\ op' \notin BindOps => bind'.state = bind.state ]_vars

\* A value sent during an earlier frame is observed by a query two frames after the
\* request: the completion time is the time of the observing frame.
C27_Witness ==
    /\ op \in QueryOps
    /\ pre_state = "Pending"
    /\ bind.state = "Finished"
    /\ bind.recv = None
    /\ bind.data # None
    /\ bind.data[1].from = 1
    /\ bind.last_start_time = 0
    /\ bind.last_complete_time = 2
    /\ CURR_FRAME = 2
    /\ lastGap = 1

\* C28: a task asks for a repaint only in the step in which its send succeeded: its
\* value is then in the channel of the receiver the Bind holds; a task whose send
\* failed because the receiver is gone asks for none. While the Bind is still Pending
\* with that value in its channel, the next poll that neither returns early nor
\* resets the Bind receives it.
C28_WakeAfterSend ==
    [][ /\ op' = "task_send"
           => \A id \in 1..Len(tasks) :
                 (tasks[id].st = "running" /\ tasks'[id].st # "running")
                 => (/\ ret'.woke => (/\ tasks'[id].st = "sent"
                                      /\ bind'.recv = Some(id)
                                      /\ CTX # None)
                     /\ tasks'[id] = Done => ~ret'.woke)
        /\ op' # "task_send" => ~ret'.woke
        /\ (/\ op' \in BindOps
            /\ bind.state = "Pending"
            /\ bind.recv # None
            /\ tasks[bind.recv[1]].st = "sent"
            /\ ~poll_short_circuit(bind)
            /\ bind.retain \/ bind.drawn_time_last = LAST_FRAME)
           => (/\ poll(bind).state = "Finished"
               /\ poll(bind).data = Some([res |-> tasks[bind.recv[1]].res[1],
                                          from |-> bind.recv[1]])) ]_vars

\* A task has sent into the channel of a Pending Bind and asked for a repaint.
C28_Witness ==
    /\ op = "task_send"
    /\ ret.woke
    /\ CTX # None
    /\ bind.state = "Pending"
    /\ bind.recv # None
    /\ tasks[bind.recv[1]].st = "sent"

\* C29: in every reachable state a Finished Bind holds data and an Idle Bind holds
\* none; so the assertion of take has never failed and would not fail now, and
\* state() never takes its fallback branch: it leaves the Bind as its poll leaves it.
C29_FinishedHasDataIdleHasNone ==
    /\ bind.state = "Finished" => bind.data # None
    /\ bind.state = "Idle" => bind.data = None
    /\ bind.panic # PanicTake
    /\ take(bind).panic # PanicTake
    /\ state(bind) = poll(bind)

\* take has just emptied a Bind that held the result of its second task.
C29_Witness ==
    /\ op = "take"
    /\ pre_state = "Finished"
    /\ ret.data # None
    /\ ret.data[1].from = 2
    /\ bind.state = "Idle"
    /\ bind.data = None
    /\ bind.panic = NoPanic

\* C30: in every reachable state a Pending Bind holds a receiver; so the poll of a
\* Pending Bind has never failed for a missing receiver and would not fail now.
C30_PendingHasReceiver ==
    /\ bind.state = "Pending" => bind.recv # None
    /\ bind.panic # PanicNoRecv
    /\ poll(bind).panic # PanicNoRecv

\* A request has replaced the receiver of a Bind that was already Pending.
C30_Witness ==
    /\ op = "request"
    /\ pre_state = "Pending"
    /\ bind.state = "Pending"
    /\ bind.recv = Some(2)
    /\ tasks[1] = Done
    /\ tasks[2].st = "running"

\* C31: without retain, the poll of an operation receives the result of a task only
\* if the last operation on the Bind was in the frame just before; and a
\* state_or_request that comes two or more frames after the last operation never
\* finds or leaves the Bind Finished: it starts a new operation and reports Pending,
\* whether or not the task of the previous one has sent.
C31_EveryOtherTickNeverFinishes ==
    [][ /\ (op' \in BindOps /\ ~bind.retain /\ received(bind))
           => sinceQuery = 1
        /\ (op' = "state_or_request" /\ ~bind.retain /\ sinceQuery = 2)
           => (/\ poll(bind).state = "Idle"
               /\ poll(bind).data = None
               /\ bind'.state = "Pending"
               /\ bind'.recv = Some(Len(tasks) + 1)
               /\ Len(tasks') = Len(tasks) + 1
               /\ ret'.view = "Pending") ]_vars

\* The Bind is queried through state_or_request two frames after the request:
\* nothing was ever received, the channel of the first task is dropped and a second
\* task is started.
C31_Witness ==
    /\ op = "state_or_request"
    /\ lastGap = 2
    /\ pre_state = "Pending"
    /\ ~bind.retain
    /\ bind.state = "Pending"
    /\ bind.last_complete_time = F64_MIN
    /\ Len(tasks) = 2
    /\ tasks[1] = Done
    /\ bind.recv = Some(2)
    /\ ret.view = "Pending"

\* C32: a poll that resets a Finished or Pending Bind to Idle changes, besides the
\* two frame times every poll shifts, only state and data: last_start_time,
\* last_complete_time, times_executed and recv are kept. So request_every_sec on a
\* Bind its poll leaves Idle starts a request exactly when more than secs have passed
\* since the completion recorded before the reset, and otherwise leaves the Bind Idle
\* without data.
C32_GCKeepsCompletionTime ==
    [][ LET p == poll(bind) IN
        /\ (op' \in BindOps /\ bind.state # "Idle" /\ p.state = "Idle")
           => p = [bind EXCEPT !.state = "Idle",
                               !.data = None,
                               !.drawn_time_prev = bind.drawn_time_last,
                               !.drawn_time_last = CURR_FRAME]
        /\ (op' = "request_every_sec" /\ p.panic = NoPanic /\ p.state = "Idle")
           => IF CURR_FRAME - bind.last_complete_time > arg'[1]
              THEN /\ Len(tasks') = Len(tasks) + 1
                   /\ bind'.state = "Pending"
              ELSE /\ tasks' = tasks
                   /\ bind' = p
                   /\ bind'.data = None ]_vars

\* A Finished Bind without retain was reset by the poll of request_every_sec, two
\* frames after it completed; the interval has not passed, so nothing is started.
C32_Witness ==
    /\ op = "request_every_sec"
    /\ pre_state = "Finished"
    /\ lastGap = 2
    /\ ~bind.retain
    /\ bind.state = "Idle"
    /\ bind.data = None
    /\ bind.last_complete_time = 0
    /\ CURR_FRAME = 2
    /\ arg = Some(2)
    /\ ret.secs = 0
    /\ tasks = << >>

\* C33: when every task sends and fill is called only on a Bind whose poll leaves it
\* Idle, no operation has panicked and none would panic now: not poll (closed
\* channel, missing receiver), not take (its assertion), not request or clear.
C33_NoFatalPath ==
    /\ bind.panic = NoPanic
    /\ poll(bind).panic = NoPanic
    /\ take(bind).panic = NoPanic
    /\ request(bind).panic = NoPanic
    /\ refresh(bind).panic = NoPanic

\* fill was called on a Bind that was Pending until the retention step of fill's own
\* poll reset it: the value its task had sent stays in the channel, unreceived.
C33_Witness ==
    /\ op = "fill"
    /\ pre_state = "Pending"
    /\ bind.state = "Finished"
    /\ bind.panic = NoPanic
    /\ bind.recv # None
    /\ tasks[bind.recv[1]].st = "sent"
    /\ bind.data[1].from = 0

====
